---- MODULE Spec2Model ----
\* Donation ledger of poor-kids-donation: the Donation, Campaign and User
\* collections and the handlers that move a donation through its statuses
\* (donationController.ts, models/Donation.ts).  Money is in tenths of a cent
\* (100000 is 100.00): the amount of a donation is a Number that no validator
\* holds to whole cents, while every fee is rounded to whole cents.  Every
\* handler is a sequence of store calls; each await is one step, so that
\* concurrent requests interleave between their store calls.
EXTENDS Integers, FiniteSets, Sequences, TLC

\* ---------------------------------------------------------------- bounds
MaxDonations == 2          \* donation documents that may be created
MaxRequests == 3           \* status/refund requests started in one behaviour
Slots == {1, 2}            \* requests that may be in flight at once
Campaigns == {1}
Users == {1}
Amounts == {100000}        \* gross amounts of the requests (100.00)
Methods == {"stripe"}
RefundAmounts == {20000, 94300, 120000}
\* gross amounts and methods of the fee computation: 1.000 .. 1.040 in steps of
\* a tenth of a cent, 5.00, 100.00 and 100.004, less the amounts that end in
\* half a cent: on those the binary floating arithmetic of the code rounds the
\* net amount the other way than the exact arithmetic of calculateFees below.
FeeAmounts == {a \in 1000..1040 : a % 10 # 5} \cup {5000, 100000, 100004}
AllMethods == {"stripe", "paypal", "bank_transfer", "crypto"}
PaymentRefs == {1}         \* paymentIntentId values a request body carries (0: none)
MaxNow == 4                \* the clock runs from 1 to MaxNow
MaxAttempts == 6           \* failed logins and loginAttempts counted up to here
LockAfter == 5             \* incrementLoginAttempts: loginAttempts + 1 >= 5
LockTicks == 2             \* incrementLoginAttempts: the lock lasts 2 hours
SubIds == {1, 2}           \* recurring subscriptions
Intervals == {1, 2}        \* a subscription's interval, in clock ticks
DonationIds == 1..MaxDonations
ReceiptIds == 1..MaxDonations   \* outcomes of the random receipt suffix

\* ---------------------------------------------------------------- schema
Statuses == {"pending", "processing", "completed", "failed", "refunded", "cancelled"}
\* a request body may carry any string as status
BodyStatuses == Statuses \cup {"bogus"}

NoDoc ==
  [exists |-> FALSE, donor |-> 0, campaign |-> 0, amount |-> 0,
   paymentMethod |-> "", paymentIntentId |-> 0, status |-> "",
   platformFee |-> 0, paymentProcessingFee |-> 0, totalFees |-> 0,
   netAmount |-> 0, receiptNumber |-> 0, refundAmount |-> 0,
   completedAt |-> FALSE, subscriptionId |-> 0]

NoReq ==
  [op |-> "none", pc |-> "idle", don |-> 0, status |-> "", amount |-> 0,
   ref |-> 0, draws |-> 0,
   orig |-> NoDoc, doc |-> NoDoc, result |-> "none", wrote |-> {}]

VARIABLES
  donations,   \* Donation collection: id -> stored document
  campaigns,   \* Campaign collection: id -> stored aggregate fields
  users,       \* User collection: id -> stored donation stats
  reqs,        \* slot -> the request in it (handler position and locals)
  started,     \* number of status/refund requests started so far
  hist         \* history: ledger, per campaign the sum of the deltas handed to
               \* $inc; processed, the donations ever stored as processing;
               \* lastSave, the campaign document the last campaign.save() was
               \* called on, the document it wrote and the time of the call.
               \* And the clock: now,
               \* what new Date() returns

vars == <<donations, campaigns, users, reqs, started, hist>>

\* Math.round(x / d), d > 0: the nearest integer, halves towards +infinity
RoundDiv(x, d) == (2 * x + d) \div (2 * d)

\* Math.round(v * 100) / 100 for the money value v = x / d: v to whole cents
Round2(x, d) == 10 * RoundDiv(x, 10 * d)

\* Donation.calculateFees, on a document (arithmetic is exact, not binary floating)
calculateFees(doc) ==
  LET platformFee == Round2(doc.amount * 25, 1000)
      processingFee ==
        CASE doc.paymentMethod = "stripe" -> Round2(doc.amount * 29 + 300000, 1000)
          [] doc.paymentMethod = "paypal" -> Round2(doc.amount * 349 + 4900000, 10000)
          [] doc.paymentMethod = "bank_transfer" -> 1000
          [] doc.paymentMethod = "crypto" -> Round2(doc.amount * 10, 1000)
          [] OTHER -> 0
      totalFees == Round2(platformFee + processingFee, 1)
  IN [doc EXCEPT !.platformFee = platformFee,
                 !.paymentProcessingFee = processingFee,
                 !.totalFees = totalFees,
                 !.netAmount = Round2(doc.amount - totalFees, 1)]

\* mutant: the hook without its receipt branch
preSave_NoReceipt(doc, rn) ==
  IF doc.totalFees = 0 THEN calculateFees(doc) ELSE doc

\* donationSchema.pre('save'): rn is the receipt number generateReceiptNumber draws
preSave(doc, rn) ==
  LET d1 == IF doc.receiptNumber = 0 THEN [doc EXCEPT !.receiptNumber = rn] ELSE doc
  IN IF d1.totalFees = 0 THEN calculateFees(d1) ELSE d1

\* receipt numbers held by stored donations
usedReceipts == {donations[e].receiptNumber : e \in {x \in DonationIds : donations[x].exists}}

\* the receipt numbers the hook may draw for a document: the random suffix either
\* repeats a stored number or is new; numbers are only compared for equality, so
\* one new number (the least unused) stands for all of them
receiptDraws(doc) ==
  IF doc.receiptNumber # 0 THEN {0}
  ELSE usedReceipts \cup {n \in ReceiptIds \ usedReceipts : \A m \in ReceiptIds \ usedReceipts : n <= m}

\* schema validation of a document on save
validDoc(doc) ==
  /\ doc.status \in Statuses
  /\ doc.amount >= 1000 /\ doc.amount <= 100000000
  /\ doc.netAmount >= 0
  /\ doc.refundAmount >= 0

\* unique index on receipt.receiptNumber
receiptFree(id, doc) ==
  \A e \in DonationIds :
    (e # id /\ donations[e].exists) => donations[e].receiptNumber # doc.receiptNumber

\* document.save(): only the paths modified since the load are written: those
\* set to a value other than the loaded one, and those in `set`, which the handler
\* assigned a value that is new at every call (new Date(), `refund_${Date.now()}`)
savedDoc(stored, orig, doc, set) ==
  [f \in DOMAIN doc |-> IF doc[f] # orig[f] \/ f \in set THEN doc[f] ELSE stored[f]]

\* mutant: the campaign write as an unconditional write of a value computed from
\* a read made when the campaign was still untouched ($set instead of $inc)
incCurrentAmount_Set(cs, c, delta) ==
  [cs EXCEPT ![c].currentAmount = delta]

\* { $inc: { currentAmount: delta } } on one campaign
incCurrentAmount(cs, c, delta) ==
  [cs EXCEPT ![c].currentAmount = @ + delta]

\* the controller's { $inc: { totalDonated, donationCount } } on one user
incUserTotals(us, u, amount, n) ==
  [us EXCEPT ![u].totalDonated = @ + amount, ![u].donationCount = @ + n]

\* the model methods' { $inc: { 'donationStats.totalDonated', 'donationStats.donationCount' } }
incDonationStats(us, u, amount, n) ==
  [us EXCEPT ![u].statsTotalDonated = @ + amount, ![u].statsDonationCount = @ + n]

\* campaign status enum
CampaignStatuses == {"draft", "active", "paused", "completed", "cancelled"}

\* no subscription
NoSub ==
  [state |-> "none", donor |-> 0, campaign |-> 0, amount |-> 0, interval |-> 0,
   nextDueDate |-> 0]

\* no campaign document
NoCampaign ==
  [status |-> "", isActive |-> FALSE, goalAmount |-> 0, currentAmount |-> 0,
   donorCount |-> 0, endDate |-> 0, milestones |-> <<>>]

Init ==
  /\ donations = [d \in DonationIds |-> NoDoc]
  /\ campaigns = [c \in Campaigns |->
       [status |-> "active", isActive |-> TRUE, goalAmount |-> 150000,
        currentAmount |-> 0, donorCount |-> 0, endDate |-> 3,
        milestones |-> <<[amount |-> 100000, achieved |-> FALSE, achievedAt |-> 0]>>]]
  /\ users = [u \in Users |->
       [totalDonated |-> 0, donationCount |-> 0,
        statsTotalDonated |-> 0, statsDonationCount |-> 0, lastDonation |-> FALSE,
        loginAttempts |-> 0, lockUntil |-> 0]]
  /\ reqs = [s \in Slots |-> NoReq]
  /\ started = 0
  /\ hist = [ledger |-> [c \in Campaigns |-> 0], processed |-> {},
             lastSave |-> [before |-> NoCampaign, after |-> NoCampaign, at |-> 0],
             now |-> 1, build |-> "", failed |-> [u \in Users |-> 0],
             login |-> [user |-> 0, ok |-> FALSE, result |-> ""],
             subs |-> [i \in SubIds |-> NoSub], swept |-> [i \in SubIds |-> 0]]

Free(s) == reqs[s].pc = "idle"

\* a new request takes the first free slot
FirstFree(s) == Free(s) /\ \A t \in Slots : t < s => ~Free(t)

\* the request in slot s of handler op is about to make the store call pc
At(s, op, pc) == reqs[s].op = op /\ reqs[s].pc = pc

\* the in-memory document a handler works on, as findById loaded it
Loaded(op, id) == [NoReq EXCEPT !.op = op, !.don = id, !.orig = donations[id],
                                !.doc = donations[id]]

\* history: the delta a request hands to the campaign's $inc
Record(c, delta) == hist' = [hist EXCEPT !.ledger[c] = @ + delta]

\* a handler reaches its response (res.status(..).json(..) or next(error))
Finish(s, res) == reqs' = [reqs EXCEPT ![s].pc = "respond", ![s].result = res]

\* ------------------------------------------------------ createDonation
\* the document createDonation hands to Donation.create
newDonation(c, amount, method, u) ==
  [NoDoc EXCEPT !.exists = TRUE, !.campaign = c, !.amount = amount,
                !.paymentMethod = method, !.status = "pending", !.donor = u]

\* Donation.create(data): the save hook, validation and the insert under the
\* next free id; a document that fails validation or repeats a receipt number
\* is not stored
insertDonation(data, rn) ==
  \E d \in DonationIds :
    /\ ~donations[d].exists
    /\ \A e \in DonationIds : e < d => donations[e].exists
    /\ LET doc == preSave(data, rn)
       IN /\ validDoc(doc) /\ receiptFree(d, doc)
          /\ donations' = [donations EXCEPT ![d] = doc]

\* createDonationValidation: body('amount').isFloat({ min: 5, max: 50000 })
amountAccepted(amount) == amount >= 5000 /\ amount <= 50000000

\* the route's validation, Campaign.findById, the status check and
\* Donation.create.  No handler modelled here writes the campaign fields the
\* check reads (isActive, status), so the two store calls are taken as one step.
\* The response carries no state.
createDonation(c, amount, method, u, rn) ==
  /\ amountAccepted(amount)
  /\ campaigns[c].isActive /\ campaigns[c].status = "active"
  /\ insertDonation(newDonation(c, amount, method, u), rn)
  /\ UNCHANGED <<campaigns, users, reqs, started, hist>>

\* Donation.create called with a document of any amount and method, as the
\* model layer offers it to every caller
DonationCreate(c, amount, method, u, rn) ==
  /\ insertDonation(newDonation(c, amount, method, u), rn)
  /\ UNCHANGED <<campaigns, users, reqs, started, hist>>

\* ------------------------------------------------ updateDonationStatus
\* the request as it stands after Donation.findById and the assignments to the
\* loaded document
updateDonationStatusBegin(id, status, ref) ==
  IF ~donations[id].exists
  THEN [NoReq EXCEPT !.op = "updateDonationStatus", !.don = id, !.status = status,
                     !.ref = ref, !.pc = "respond", !.result = "404"]
  ELSE LET r == Loaded("updateDonationStatus", id)
           doc == [r.doc EXCEPT !.status = status,
                                !.paymentIntentId = IF ref # 0 THEN ref ELSE @,
                                !.completedAt = IF status = "completed" THEN TRUE ELSE @]
       IN [r EXCEPT !.status = status, !.ref = ref, !.doc = doc,
                    !.pc = IF status = "completed" THEN "campaignInc" ELSE "save"]

updateDonationStatusStart(s, id, status, ref) ==
  /\ FirstFree(s) /\ started < MaxRequests
  /\ started' = started + 1
  /\ reqs' = [reqs EXCEPT ![s] = updateDonationStatusBegin(id, status, ref)]
  /\ UNCHANGED <<donations, campaigns, users, hist>>

updateDonationStatusIncCampaign(s) ==
  /\ At(s, "updateDonationStatus", "campaignInc")
  /\ campaigns' = incCurrentAmount(campaigns, reqs[s].doc.campaign, reqs[s].doc.amount)
  /\ Record(reqs[s].doc.campaign, reqs[s].doc.amount)
  /\ reqs' = [reqs EXCEPT ![s].pc = IF reqs[s].doc.donor # 0 THEN "userInc" ELSE "save",
                          ![s].wrote = @ \cup {"campaign"}]
  /\ UNCHANGED <<donations, users, started>>

updateDonationStatusIncUser(s) ==
  /\ At(s, "updateDonationStatus", "userInc")
  /\ users' = incUserTotals(users, reqs[s].doc.donor, reqs[s].doc.amount, 1)
  /\ reqs' = [reqs EXCEPT ![s].pc = "save", ![s].wrote = @ \cup {"user"}]
  /\ UNCHANGED <<donations, campaigns, started, hist>>

\* the paths a handler assigns a value that differs at every call
freshPaths(s) ==
  CASE reqs[s].op = "processRefund" -> {"refundAmount"}
    [] reqs[s].op = "updateDonationStatus" /\ reqs[s].status = "completed" -> {"completedAt"}
    [] OTHER -> {}

\* donation.save() of a loaded document: hook, validation, write of the changed paths
saveDonation(s, rn) ==
  LET doc == preSave(reqs[s].doc, rn)
      id == reqs[s].don
  IN IF validDoc(doc)
     THEN /\ donations' = [donations EXCEPT ![id] =
                             savedDoc(donations[id], reqs[s].orig, doc, freshPaths(s))]
          /\ hist' = [hist EXCEPT !.processed =
                        IF donations'[id].status = "processing" THEN @ \cup {id} ELSE @]
          /\ reqs' = [reqs EXCEPT ![s].doc = doc, ![s].wrote = @ \cup {"donation"},
                                  ![s].pc = IF reqs[s].op = "refundDonation"
                                            THEN "campaignDec" ELSE "respond",
                                  ![s].result = IF reqs[s].op = "refundDonation"
                                                THEN "none" ELSE "200"]
     ELSE /\ UNCHANGED <<donations, hist>>
          /\ Finish(s, "error")

updateDonationStatusSave(s) ==
  /\ At(s, "updateDonationStatus", "save")
  /\ \E rn \in receiptDraws(reqs[s].doc) : saveDonation(s, rn)
  /\ UNCHANGED <<campaigns, users, started>>

\* ------------------------------------------------------ refundDonation
\* refundReason, refundedAt and refundedBy are no paths of the Donation schema:
\* the assignments to them leave the stored document as it is.
refundDonationStart(s, id) ==
  /\ FirstFree(s) /\ started < MaxRequests
  /\ started' = started + 1
  /\ LET r == [NoReq EXCEPT !.op = "refundDonation", !.don = id]
     IN IF ~donations[id].exists
        THEN reqs' = [reqs EXCEPT ![s] = [r EXCEPT !.pc = "respond", !.result = "404"]]
        ELSE IF donations[id].status # "completed"
        THEN reqs' = [reqs EXCEPT ![s] =
               [r EXCEPT !.orig = donations[id], !.doc = donations[id],
                         !.pc = "respond", !.result = "400"]]
        ELSE reqs' = [reqs EXCEPT ![s] =
               [Loaded("refundDonation", id) EXCEPT
                  !.doc = [donations[id] EXCEPT !.status = "refunded"],
                  !.amount = donations[id].amount, !.pc = "save"]]
  /\ UNCHANGED <<donations, campaigns, users, hist>>

refundDonationSave(s) ==
  /\ At(s, "refundDonation", "save")
  /\ \E rn \in receiptDraws(reqs[s].doc) : saveDonation(s, rn)
  /\ UNCHANGED <<campaigns, users, started>>

refundDonationDecCampaign(s) ==
  /\ At(s, "refundDonation", "campaignDec")
  /\ campaigns' = incCurrentAmount(campaigns, reqs[s].doc.campaign, -reqs[s].doc.amount)
  /\ Record(reqs[s].doc.campaign, -reqs[s].doc.amount)
  /\ reqs' = [reqs EXCEPT ![s].wrote = @ \cup {"campaign"},
                          ![s].pc = IF reqs[s].doc.donor # 0 THEN "userDec" ELSE "respond",
                          ![s].result = IF reqs[s].doc.donor # 0 THEN "none" ELSE "200"]
  /\ UNCHANGED <<donations, users, started>>

refundDonationDecUser(s) ==
  /\ At(s, "refundDonation", "userDec")
  /\ users' = incUserTotals(users, reqs[s].doc.donor, -reqs[s].doc.amount, -1)
  /\ reqs' = [reqs EXCEPT ![s].wrote = @ \cup {"user"}, ![s].pc = "respond",
                          ![s].result = "200"]
  /\ UNCHANGED <<donations, campaigns, started, hist>>

\* ------------------------------------- Donation methods (models/Donation.ts)
\* A method runs on a document its caller loaded from the collection.
\* the call on the document as the caller loaded it, status assigned
markAsCompletedBegin(id) ==
  [Loaded("markAsCompleted", id) EXCEPT
     !.doc = [donations[id] EXCEPT !.status = "completed"],
     !.status = "completed", !.pc = "campaignInc"]

markAsCompletedStart(s, id) ==
  /\ FirstFree(s) /\ started < MaxRequests
  /\ donations[id].exists
  /\ started' = started + 1
  /\ reqs' = [reqs EXCEPT ![s] = markAsCompletedBegin(id)]
  /\ UNCHANGED <<donations, campaigns, users, hist>>

markAsCompletedIncCampaign(s) ==
  /\ At(s, "markAsCompleted", "campaignInc")
  /\ campaigns' = incCurrentAmount(campaigns, reqs[s].doc.campaign, reqs[s].doc.netAmount)
  /\ Record(reqs[s].doc.campaign, reqs[s].doc.netAmount)
  /\ reqs' = [reqs EXCEPT ![s].pc = "userInc", ![s].wrote = @ \cup {"campaign"}]
  /\ UNCHANGED <<donations, users, started>>

markAsCompletedIncUser(s) ==
  /\ At(s, "markAsCompleted", "userInc")
  /\ users' = [incDonationStats(users, reqs[s].doc.donor, reqs[s].doc.amount, 1)
                 EXCEPT ![reqs[s].doc.donor].lastDonation = TRUE]
  /\ reqs' = [reqs EXCEPT ![s].pc = "save", ![s].wrote = @ \cup {"user"}]
  /\ UNCHANGED <<donations, campaigns, started, hist>>

markAsCompletedSave(s) ==
  /\ At(s, "markAsCompleted", "save")
  /\ \E rn \in receiptDraws(reqs[s].doc) : saveDonation(s, rn)
  /\ UNCHANGED <<campaigns, users, started>>

markAsFailedStart(s, id) ==
  /\ FirstFree(s) /\ started < MaxRequests
  /\ donations[id].exists
  /\ started' = started + 1
  /\ reqs' = [reqs EXCEPT ![s] =
       [Loaded("markAsFailed", id) EXCEPT
          !.doc = [donations[id] EXCEPT !.status = "failed"],
          !.status = "failed", !.pc = "save"]]
  /\ UNCHANGED <<donations, campaigns, users, hist>>

markAsFailedSave(s) ==
  /\ At(s, "markAsFailed", "save")
  /\ \E rn \in receiptDraws(reqs[s].doc) : saveDonation(s, rn)
  /\ UNCHANGED <<campaigns, users, started>>

\* the call on the document as the caller loaded it, status and refund assigned
processRefundBegin(id, amount) ==
  [Loaded("processRefund", id) EXCEPT
     !.doc = [donations[id] EXCEPT !.status = "refunded", !.refundAmount = amount],
     !.amount = amount, !.pc = "campaignDec"]

processRefundStart(s, id, amount) ==
  /\ FirstFree(s) /\ started < MaxRequests
  /\ donations[id].exists
  /\ started' = started + 1
  /\ reqs' = [reqs EXCEPT ![s] = processRefundBegin(id, amount)]
  /\ UNCHANGED <<donations, campaigns, users, hist>>

\* mutant: the refund's campaign write also reopens a campaign that falls back
\* below its goal
processRefundDecCampaign_Reopen(s) ==
  /\ At(s, "processRefund", "campaignDec")
  /\ LET c == reqs[s].doc.campaign
         cs == incCurrentAmount(campaigns, c, -reqs[s].amount)
     IN campaigns' = [cs EXCEPT ![c].status =
                        IF @ = "completed" /\ cs[c].currentAmount < cs[c].goalAmount
                        THEN "active" ELSE @]
  /\ Record(reqs[s].doc.campaign, -reqs[s].amount)
  /\ reqs' = [reqs EXCEPT ![s].pc = "userDec", ![s].wrote = @ \cup {"campaign"}]
  /\ UNCHANGED <<donations, users, started>>

processRefundDecCampaign(s) ==
  /\ At(s, "processRefund", "campaignDec")
  /\ campaigns' = incCurrentAmount(campaigns, reqs[s].doc.campaign, -reqs[s].amount)
  /\ Record(reqs[s].doc.campaign, -reqs[s].amount)
  /\ reqs' = [reqs EXCEPT ![s].pc = "userDec", ![s].wrote = @ \cup {"campaign"}]
  /\ UNCHANGED <<donations, users, started>>

processRefundDecUser(s) ==
  /\ At(s, "processRefund", "userDec")
  /\ users' = incDonationStats(users, reqs[s].doc.donor, -reqs[s].amount, -1)
  /\ reqs' = [reqs EXCEPT ![s].pc = "save", ![s].wrote = @ \cup {"user"}]
  /\ UNCHANGED <<donations, campaigns, started, hist>>

processRefundSave(s) ==
  /\ At(s, "processRefund", "save")
  /\ \E rn \in receiptDraws(reqs[s].doc) : saveDonation(s, rn)
  /\ UNCHANGED <<campaigns, users, started>>

\* ------------------------------------------------------- store failure
\* The store call a request is waiting on rejects: nothing is written by it, the
\* handler's catch block (or the method's caller) reports the error.
StoreError(s) ==
  /\ reqs[s].pc \notin {"idle", "respond"}
  /\ Finish(s, "error")
  /\ UNCHANGED <<donations, campaigns, users, started, hist>>

\* the response is sent and the request is over
\* (slots carry no identity: the requests behind s move up, so that the busy
\* slots are always the first ones)
Respond(s) ==
  /\ reqs[s].pc = "respond"
  /\ reqs' = [t \in Slots |-> IF t < s THEN reqs[t]
                               ELSE IF t + 1 \in Slots THEN reqs[t + 1] ELSE NoReq]
  /\ UNCHANGED <<donations, campaigns, users, started, hist>>

Next ==
  \/ \E c \in Campaigns, a \in Amounts, m \in Methods, u \in Users,
        rn \in receiptDraws(NoDoc) : createDonation(c, a, m, u, rn)
  \/ \E s \in Slots, id \in DonationIds, st \in BodyStatuses, ref \in PaymentRefs :
       updateDonationStatusStart(s, id, st, ref)
  \/ \E s \in Slots : updateDonationStatusIncCampaign(s)
  \/ \E s \in Slots : updateDonationStatusIncUser(s)
  \/ \E s \in Slots : updateDonationStatusSave(s)
  \/ \E s \in Slots, id \in DonationIds : refundDonationStart(s, id)
  \/ \E s \in Slots : refundDonationSave(s)
  \/ \E s \in Slots : refundDonationDecCampaign(s)
  \/ \E s \in Slots : refundDonationDecUser(s)
  \/ \E s \in Slots, id \in DonationIds : markAsCompletedStart(s, id)
  \/ \E s \in Slots : markAsCompletedIncCampaign(s)
  \/ \E s \in Slots : markAsCompletedIncUser(s)
  \/ \E s \in Slots : markAsCompletedSave(s)
  \/ \E s \in Slots, id \in DonationIds : markAsFailedStart(s, id)
  \/ \E s \in Slots : markAsFailedSave(s)
  \/ \E s \in Slots, id \in DonationIds, a \in RefundAmounts : processRefundStart(s, id, a)
  \/ \E s \in Slots : processRefundDecCampaign(s)
  \/ \E s \in Slots : processRefundDecUser(s)
  \/ \E s \in Slots : processRefundSave(s)
  \/ \E s \in Slots : StoreError(s)
  \/ \E s \in Slots : Respond(s)

Spec == Init /\ [][Next]_vars

\* ------------------------------------------------------------ campaigns
\* campaignSchema.methods.isExpired, on a document
isExpired(doc) == hist.now > doc.endDate

\* campaignSchema.methods.canReceiveDonations, on a document
canReceiveDonations(doc) ==
  /\ doc.status = "active"
  /\ ~isExpired(doc)
  /\ doc.currentAmount < doc.goalAmount
  /\ doc.isActive

\* mutant: the two branches of the hook in the other order
campaignPreSave_CancelFirst(doc) ==
  LET d1 == IF isExpired(doc) /\ doc.status = "active"
            THEN [doc EXCEPT !.status = "cancelled"] ELSE doc
  IN IF d1.currentAmount >= d1.goalAmount /\ d1.status = "active"
     THEN [d1 EXCEPT !.status = "completed"] ELSE d1

\* campaignSchema.pre('save'), on a document
campaignPreSave(doc) ==
  LET d1 == IF doc.currentAmount >= doc.goalAmount /\ doc.status = "active"
            THEN [doc EXCEPT !.status = "completed"] ELSE doc
  IN IF isExpired(d1) /\ d1.status = "active"
     THEN [d1 EXCEPT !.status = "cancelled"] ELSE d1

\* campaign.save() of the document doc of campaign c: the hook, then the write
saveCampaign(c, doc) ==
  LET after == campaignPreSave(doc)
  IN /\ campaigns' = [campaigns EXCEPT ![c] = after]
     /\ hist' = [hist EXCEPT !.lastSave =
                   [before |-> doc, after |-> after, at |-> hist.now]]

\* toggleCampaignStatus (campaign controller, and admin PATCH /campaigns/:id/toggle)
toggleCampaignStatus(c) ==
  /\ saveCampaign(c, [campaigns[c] EXCEPT !.isActive = ~@])
  /\ UNCHANGED <<donations, users, reqs, started>>

\* the milestones of a document after the loop of checkMilestones
markedMilestones(doc) ==
  [i \in DOMAIN doc.milestones |->
     IF ~doc.milestones[i].achieved /\ doc.currentAmount >= doc.milestones[i].amount
     THEN [doc.milestones[i] EXCEPT !.achieved = TRUE, !.achievedAt = hist.now]
     ELSE doc.milestones[i]]

\* campaignSchema.methods.checkMilestones, when it marks a milestone (otherwise
\* it does nothing)
checkMilestones(c) ==
  /\ markedMilestones(campaigns[c]) # campaigns[c].milestones
  /\ saveCampaign(c, [campaigns[c] EXCEPT !.milestones = markedMilestones(campaigns[c])])
  /\ UNCHANGED <<donations, users, reqs, started>>

\* request bodies of updateCampaign: the route validates title, description,
\* goalAmount, category and endDate and lets every other key through
CampaignBodies ==
  {[currentAmount |-> 200000], [donorCount |-> 7], [goalAmount |-> 100000]}

\* updateCampaign: Campaign.findByIdAndUpdate(id, req.body, { runValidators: true }),
\* no save hook
updateCampaign(c, body) ==
  /\ campaigns' = [campaigns EXCEPT ![c] =
       [f \in DOMAIN campaigns[c] |->
          IF f \in DOMAIN body THEN body[f] ELSE campaigns[c][f]]]
  /\ UNCHANGED <<donations, users, reqs, started, hist>>

\* admin PATCH /campaigns/:id/status: Campaign.findByIdAndUpdate(id, { status })
updateCampaignStatus(c, status) ==
  /\ campaigns' = [campaigns EXCEPT ![c].status = status]
  /\ UNCHANGED <<donations, users, reqs, started, hist>>

\* time passes
Tick ==
  /\ hist.now < MaxNow
  /\ hist' = [hist EXCEPT !.now = @ + 1]
  /\ UNCHANGED <<donations, campaigns, users, reqs, started>>

\* no request is in flight
NoneInFlight == \A t \in Slots : reqs[t].pc = "idle"

\* The campaign operations and the clock, and no donation.
NextHook ==
  \/ \E c \in Campaigns : toggleCampaignStatus(c)
  \/ \E c \in Campaigns : checkMilestones(c)
  \/ \E c \in Campaigns, body \in CampaignBodies : updateCampaign(c, body)
  \/ \E c \in Campaigns, st \in CampaignStatuses : updateCampaignStatus(c, st)
  \/ Tick

SpecHook == Init /\ [][NextHook]_vars

\* Donations created, completed and refunded by one request at a time, the
\* campaign operations that save the campaign, and the clock.
NextCampaign ==
  \/ \E c \in Campaigns, a \in Amounts, m \in Methods, u \in Users,
        rn \in receiptDraws(NoDoc) : createDonation(c, a, m, u, rn)
  \/ \E s \in Slots, id \in DonationIds, ref \in PaymentRefs :
       NoneInFlight /\ updateDonationStatusStart(s, id, "completed", ref)
  \/ \E s \in Slots : updateDonationStatusIncCampaign(s)
  \/ \E s \in Slots : updateDonationStatusIncUser(s)
  \/ \E s \in Slots : updateDonationStatusSave(s)
  \/ \E s \in Slots, id \in DonationIds : NoneInFlight /\ refundDonationStart(s, id)
  \/ \E s \in Slots : refundDonationSave(s)
  \/ \E s \in Slots : refundDonationDecCampaign(s)
  \/ \E s \in Slots : refundDonationDecUser(s)
  \/ \E s \in Slots, id \in DonationIds, a \in RefundAmounts :
       NoneInFlight /\ processRefundStart(s, id, a)
  \/ \E s \in Slots : processRefundDecCampaign(s)
  \/ \E s \in Slots : processRefundDecUser(s)
  \/ \E s \in Slots : processRefundSave(s)
  \/ \E s \in Slots : Respond(s)
  \/ \E c \in Campaigns : toggleCampaignStatus(c)
  \/ \E c \in Campaigns : checkMilestones(c)
  \/ Tick

SpecCampaign == Init /\ [][NextCampaign]_vars

\* --------------------------------------------- createDonation, answered
\* createDonation as a request that is answered: 201 with the stored document,
\* or the error Donation.create rejected with (a validation error, or the
\* duplicate key error of the unique receipt index).  generateReceiptNumber is
\* called once by the save hook, and Donation.create is called once.
createDonationRequest(s, c, amount, method, u, rn) ==
  /\ FirstFree(s) /\ started < MaxRequests
  /\ amountAccepted(amount)
  /\ campaigns[c].isActive /\ campaigns[c].status = "active"
  /\ \E d \in DonationIds : ~donations[d].exists
  /\ started' = started + 1
  /\ LET d == CHOOSE x \in DonationIds :
                /\ ~donations[x].exists
                /\ \A e \in DonationIds : e < x => donations[e].exists
         doc == preSave(newDonation(c, amount, method, u), rn)
         r == [NoReq EXCEPT !.op = "createDonation", !.don = d, !.amount = amount,
                            !.doc = doc, !.draws = 1, !.pc = "respond"]
     IN IF validDoc(doc) /\ receiptFree(d, doc)
        THEN /\ donations' = [donations EXCEPT ![d] = doc]
             /\ reqs' = [reqs EXCEPT ![s] =
                          [r EXCEPT !.result = "201", !.wrote = {"donation"}]]
        ELSE /\ UNCHANGED donations
             /\ reqs' = [reqs EXCEPT ![s] = [r EXCEPT !.result = "error"]]
  /\ UNCHANGED <<campaigns, users, hist>>

\* creations only, each answered
NextReceipts ==
  \/ \E s \in Slots, c \in Campaigns, a \in FeeAmounts, m \in AllMethods, u \in Users,
        rn \in receiptDraws(NoDoc) : createDonationRequest(s, c, a, m, u, rn)
  \/ \E s \in Slots : Respond(s)

SpecReceipts == Init /\ [][NextReceipts]_vars

\* ------------------------------------------------- the fee computation
\* Donations of every amount and method are created and nothing else happens:
\* the stored documents show what calculateFees stamped and what validation let
\* through.
NextFees ==
  \/ \E c \in Campaigns, a \in FeeAmounts, m \in AllMethods, u \in Users,
        rn \in receiptDraws(NoDoc) : createDonation(c, a, m, u, rn)
  \/ \E c \in Campaigns, a \in FeeAmounts, m \in AllMethods, u \in Users,
        rn \in receiptDraws(NoDoc) : DonationCreate(c, a, m, u, rn)

SpecFees == Init /\ [][NextFees]_vars

\* --------------------------------------------------- one caller, retrying
\* the call of an aborted request made again: the same entry point with the same
\* arguments, on the document as it is stored now
Again(r) ==
  CASE r.op = "updateDonationStatus" -> updateDonationStatusBegin(r.don, r.status, r.ref)
    [] r.op = "markAsCompleted" -> markAsCompletedBegin(r.don)
    [] r.op = "processRefund" -> processRefundBegin(r.don, r.amount)
    [] OTHER -> r

\* the caller of a request that ended in a store failure makes the call again
Retry(s) ==
  /\ reqs[s].pc = "respond" /\ reqs[s].result = "error"
  /\ started < MaxRequests
  /\ started' = started + 1
  /\ reqs' = [reqs EXCEPT ![s] = Again(reqs[s])]
  /\ UNCHANGED <<donations, campaigns, users, hist>>

\* Donations are created; then one caller makes one completion or refund call and
\* makes it again whenever a store call of it fails.  No other request is made.
NextRetry ==
  \/ \E c \in Campaigns, a \in Amounts, m \in Methods, u \in Users,
        rn \in receiptDraws(NoDoc) : started = 0 /\ createDonation(c, a, m, u, rn)
  \/ \E s \in Slots, id \in DonationIds, ref \in PaymentRefs :
       started = 0 /\ updateDonationStatusStart(s, id, "completed", ref)
  \/ \E s \in Slots : updateDonationStatusIncCampaign(s)
  \/ \E s \in Slots : updateDonationStatusIncUser(s)
  \/ \E s \in Slots : updateDonationStatusSave(s)
  \/ \E s \in Slots, id \in DonationIds : started = 0 /\ markAsCompletedStart(s, id)
  \/ \E s \in Slots : markAsCompletedIncCampaign(s)
  \/ \E s \in Slots : markAsCompletedIncUser(s)
  \/ \E s \in Slots : markAsCompletedSave(s)
  \/ \E s \in Slots, id \in DonationIds, a \in RefundAmounts :
       started = 0 /\ processRefundStart(s, id, a)
  \/ \E s \in Slots : processRefundDecCampaign(s)
  \/ \E s \in Slots : processRefundDecUser(s)
  \/ \E s \in Slots : processRefundSave(s)
  \/ \E s \in Slots : StoreError(s)
  \/ \E s \in Slots : Retry(s)

SpecRetry == Init /\ [][NextRetry]_vars

\* ================================================================ login
\* The User schema defines isLocked twice, as a virtual (a boolean property) and
\* as a method; which of the two a document carries depends on the build.  It is
\* fixed once, when the model is compiled: hist.build.
compileUser(b) ==
  /\ hist.build = ""
  /\ hist' = [hist EXCEPT !.build = b]
  /\ UNCHANGED <<donations, campaigns, users, reqs, started>>

\* the lock test of the virtual and of the method
lockedNow(doc) == doc.lockUntil # 0 /\ doc.lockUntil > hist.now

\* `this.isLocked` read as a property: the virtual's value, or the method (a
\* function, which is truthy)
isLockedProperty(doc) == IF hist.build = "virtual" THEN lockedNow(doc) ELSE TRUE

\* userSchema.methods.incrementLoginAttempts (no handler calls it)
incrementLoginAttempts(u) ==
  /\ hist.build # ""
  /\ users[u].loginAttempts < MaxAttempts
  /\ users' = IF users[u].lockUntil # 0 /\ users[u].lockUntil < hist.now
              THEN [users EXCEPT ![u].lockUntil = 0, ![u].loginAttempts = 1]
              ELSE [users EXCEPT
                      ![u].loginAttempts = @ + 1,
                      ![u].lockUntil =
                        IF users[u].loginAttempts + 1 >= LockAfter
                           /\ ~isLockedProperty(users[u])
                        THEN hist.now + LockTicks ELSE @]
  /\ UNCHANGED <<donations, campaigns, reqs, started, hist>>

\* userSchema.methods.resetLoginAttempts ($unset loginAttempts and lockUntil)
resetLoginAttempts(us, u) == [us EXCEPT ![u].loginAttempts = 0, ![u].lockUntil = 0]

\* login (auth controller): ok says whether the password matches.  A wrong
\* password is answered 401 and nothing is written.  With a matching password
\* user.isLocked() is called: on the virtual it is a call of a boolean, a
\* TypeError that the catch hands to next (500).
login(u, ok) ==
  /\ hist.build # ""
  /\ ~ok => hist.failed[u] < MaxAttempts
  /\ LET result == IF ~ok THEN "401"
                   ELSE IF hist.build = "virtual" THEN "500"
                   ELSE IF lockedNow(users[u]) THEN "423"
                   ELSE "200"
     IN /\ users' = IF result = "200" THEN resetLoginAttempts(users, u) ELSE users
        /\ hist' = [hist EXCEPT
                      !.failed[u] = IF result = "401" THEN @ + 1
                                    ELSE IF result = "200" THEN 0 ELSE @,
                      !.login = [user |-> u, ok |-> ok, result |-> result]]
  /\ UNCHANGED <<donations, campaigns, reqs, started>>

\* Logins with right and wrong passwords, the model method and the clock.
NextLogin ==
  \/ \E b \in {"virtual", "method"} : compileUser(b)
  \/ \E u \in Users, ok \in BOOLEAN : login(u, ok)
  \/ \E u \in Users : incrementLoginAttempts(u)
  \/ Tick

SpecLogin == Init /\ [][NextLogin]_vars

\* ==================================================== recurring donations
\* The recurring subscriptions and the sweep that BACKEND_FEATURES.md schedules
\* (processRecurringDonations).  hist.subs holds the subscriptions; hist.swept[i]
\* is the instant of the last donation the sweep created for subscription i.
subscribe(i, c, u, amount, interval) ==
  /\ hist.subs[i].state = "none"
  /\ hist' = [hist EXCEPT !.subs[i] =
                [state |-> "active", donor |-> u, campaign |-> c, amount |-> amount,
                 interval |-> interval, nextDueDate |-> hist.now + interval]]
  /\ UNCHANGED <<donations, campaigns, users, reqs, started>>

\* active -> paused, paused -> active, active -> cancelled
setSubscription(i, from, to) ==
  /\ hist.subs[i].state = from
  /\ hist' = [hist EXCEPT !.subs[i].state = to]
  /\ UNCHANGED <<donations, campaigns, users, reqs, started>>

pauseSubscription(i) == setSubscription(i, "active", "paused")
resumeSubscription(i) == setSubscription(i, "paused", "active")
cancelSubscription(i) == setSubscription(i, "active", "cancelled")

\* a subscription the sweep selects
due(sub) == sub.state = "active" /\ sub.nextDueDate <= hist.now

\* mutant: the sweep leaves nextDueDate where it was
sweepOne_NoAdvance(i, rn) ==
  /\ due(hist.subs[i])
  /\ amountAccepted(hist.subs[i].amount)
  /\ campaigns[hist.subs[i].campaign].isActive
  /\ campaigns[hist.subs[i].campaign].status = "active"
  /\ insertDonation([newDonation(hist.subs[i].campaign, hist.subs[i].amount,
                                 "stripe", hist.subs[i].donor)
                       EXCEPT !.subscriptionId = i], rn)
  /\ hist' = [hist EXCEPT !.swept[i] = hist.now]
  /\ UNCHANGED <<campaigns, users, reqs, started>>

\* the sweep, for one subscription: a donation is created as createDonation
\* creates it, with the subscription's campaign, amount and donor and its
\* reference, and nextDueDate moves on by the interval
sweepOne(i, rn) ==
  /\ due(hist.subs[i])
  /\ amountAccepted(hist.subs[i].amount)
  /\ campaigns[hist.subs[i].campaign].isActive
  /\ campaigns[hist.subs[i].campaign].status = "active"
  /\ insertDonation([newDonation(hist.subs[i].campaign, hist.subs[i].amount,
                                 "stripe", hist.subs[i].donor)
                       EXCEPT !.subscriptionId = i], rn)
  /\ hist' = [hist EXCEPT !.subs[i].nextDueDate = @ + hist.subs[i].interval,
                          !.swept[i] = hist.now]
  /\ UNCHANGED <<campaigns, users, reqs, started>>

\* Subscriptions opened, paused, resumed and cancelled, the sweep and the clock.
NextSweep ==
  \/ \E i \in SubIds, c \in Campaigns, u \in Users, a \in Amounts, n \in Intervals :
       subscribe(i, c, u, a, n)
  \/ \E i \in SubIds : pauseSubscription(i)
  \/ \E i \in SubIds : resumeSubscription(i)
  \/ \E i \in SubIds : cancelSubscription(i)
  \/ \E i \in SubIds, rn \in receiptDraws(NoDoc) : sweepOne(i, rn)
  \/ Tick

SpecSweep == Init /\ [][NextSweep]_vars

\* ================================================================ claims
\* no request is between two of its store calls
Quiescent == \A s \in Slots : reqs[s].pc \in {"idle", "respond"}

\* the completed donations of campaign c
CompletedOf(c) ==
  {d \in DonationIds : donations[d].exists /\ donations[d].campaign = c
                       /\ donations[d].status = "completed"}

RECURSIVE NetSum(_)
\* sum over a set of donations of net amount less the refund recorded on it
NetSum(S) ==
  IF S = {} THEN 0
  ELSE LET d == CHOOSE x \in S : TRUE
       IN donations[d].netAmount - donations[d].refundAmount + NetSum(S \ {d})

AllWrites == {"donation", "campaign", "user"}
BusySlots == {s \in Slots : reqs[s].pc # "idle"}

\* the request in slot s completes a donation
Completes(s) ==
  \/ reqs[s].op = "markAsCompleted"
  \/ reqs[s].op = "updateDonationStatus" /\ reqs[s].status = "completed"

\* the request in slot s refunds a donation
Refunds(s) == reqs[s].op \in {"refundDonation", "processRefund"}

\* the request in slot s was answered, and not with a store failure
Answered(s) == reqs[s].pc = "respond" /\ reqs[s].result # "error"

\* C1: after any sequence of creations, completions, failures and refunds a
\* campaign's currentAmount equals the sum of the net amounts of its completed
\* donations minus the refunds on them.
C1_AggregateSum ==
  Quiescent => \A c \in Campaigns : campaigns[c].currentAmount = NetSum(CompletedOf(c))

\* C2: the same payment-succeeded event (same donation, same payment reference)
\* delivered twice credits the campaign and the donor once: of two deliveries of
\* one event at most one applies the aggregate writes.
C2_IdempotentCompletion ==
  \A s, t \in BusySlots :
    (/\ s # t
     /\ reqs[s].op = "updateDonationStatus" /\ reqs[t].op = "updateDonationStatus"
     /\ reqs[s].status = "completed" /\ reqs[t].status = "completed"
     /\ reqs[s].don = reqs[t].don /\ reqs[s].ref = reqs[t].ref /\ reqs[s].ref # 0
     /\ reqs[s].orig.status \in {"pending", "processing"}
     /\ reqs[t].orig.status \in {"pending", "processing"})
    => ~("campaign" \in reqs[s].wrote /\ "campaign" \in reqs[t].wrote)

\* C3: a completion or a refund applies the status write and the aggregate
\* writes together: no state shows some of its writes without the others.
C3_NoPartialApplication ==
  \A s \in BusySlots :
    (Completes(s) \/ Refunds(s)) => reqs[s].wrote \in {{}, AllWrites}

\* C4: for any interleaving of completions and refunds the campaign's
\* currentAmount is its initial value (0) plus the sum of the deltas the requests
\* applied: no increment is lost.
C4_NoLostUpdates ==
  \A c \in Campaigns : campaigns[c].currentAmount = hist.ledger[c]

\* C4 witness: a completion and a refund of distinct donations of one campaign are
\* in flight together, both having applied their campaign increment.
C4_Witness ==
  \E s, t \in BusySlots :
    /\ Completes(s) /\ Refunds(t)
    /\ reqs[s].don # reqs[t].don
    /\ reqs[s].doc.campaign = reqs[t].doc.campaign
    /\ "campaign" \in reqs[s].wrote /\ "campaign" \in reqs[t].wrote
    /\ reqs[s].pc # "respond" /\ reqs[t].pc # "respond"
    /\ C4_NoLostUpdates

\* C5: every campaign's currentAmount and donorCount are >= 0 in every state.
C5_NoNegativeAggregates ==
  \A c \in Campaigns : campaigns[c].currentAmount >= 0 /\ campaigns[c].donorCount >= 0

\* C6: a donation that has left pending is never pending again, and one that has
\* left processing is never processing again.
C6_StatusMonotonic ==
  [][\A d \in DonationIds :
       donations[d].exists =>
         /\ donations[d].status # "pending" => donations'[d].status # "pending"
         /\ (d \in hist.processed /\ donations[d].status # "processing")
              => donations'[d].status # "processing"]_vars

\* the statuses a transition may start from
LegalSources(target) ==
  CASE target \in {"completed", "failed"} -> {"pending", "processing"}
    [] target \in {"cancelled", "processing"} -> {"pending"}
    [] OTHER -> {}

\* the request in slot s attempts a complete, fail, cancel or mark-processing
Transition(s) ==
  \/ reqs[s].op \in {"markAsCompleted", "markAsFailed"}
  \/ /\ reqs[s].op = "updateDonationStatus"
     /\ reqs[s].orig.exists
     /\ reqs[s].status \in {"completed", "failed", "cancelled", "processing"}

\* C7: a complete, fail, cancel or mark-processing attempted on a donation whose
\* status is not a legal source of it writes nothing and is answered
\* IllegalStateTransition.
C7_IllegalTransitionRejected ==
  \A s \in BusySlots :
    (Transition(s) /\ reqs[s].orig.status \notin LegalSources(reqs[s].status))
    => /\ reqs[s].wrote = {}
       /\ Answered(s) => reqs[s].result = "IllegalStateTransition"

\* the refund of slot s is within what is left of the donation's net amount
WithinRemaining(s) ==
  /\ 0 < reqs[s].amount
  /\ reqs[s].amount <= reqs[s].orig.netAmount - reqs[s].orig.refundAmount

\* C8: a refund of a completed donation whose amount is not within
\* 0 < amount <= netAmount - prior refunds writes nothing and is answered
\* InvalidRefundAmount.
C8_RefundBound ==
  \A s \in BusySlots :
    (Refunds(s) /\ reqs[s].orig.status = "completed" /\ ~WithinRemaining(s))
    => /\ reqs[s].wrote = {}
       /\ Answered(s) => reqs[s].result = "InvalidRefundAmount"

\* C9: a refund, through refundDonation or processRefund, of a donation whose
\* status is not completed is rejected and writes nothing.
C9_RefundOnlyCompleted ==
  \A s \in BusySlots :
    (Refunds(s) /\ reqs[s].orig.exists /\ reqs[s].orig.status # "completed")
    => /\ reqs[s].wrote = {}
       /\ Answered(s) => reqs[s].result = "400"

\* C10: two refund requests for one completed donation that repeat each other
\* (same entry point, same amount: the replay of one idempotency token) reverse
\* the campaign and the donor once: at most one of them applies the aggregate writes.
C10_RefundIdempotent ==
  \A s, t \in BusySlots :
    (/\ s # t
     /\ Refunds(s) /\ reqs[s].op = reqs[t].op
     /\ reqs[s].don = reqs[t].don /\ reqs[s].amount = reqs[t].amount
     /\ reqs[s].orig.status = "completed" /\ reqs[t].orig.status = "completed")
    => ~("campaign" \in reqs[s].wrote /\ "campaign" \in reqs[t].wrote)

\* C11: a refund of less than what is left of a completed donation's net amount
\* leaves the donation completed: the document such a refund saves, and returns,
\* has status completed.
C11_PartialRefundKeepsCompleted ==
  \A s \in BusySlots :
    (/\ Refunds(s) /\ reqs[s].orig.status = "completed"
     /\ 0 < reqs[s].amount
     /\ reqs[s].amount < reqs[s].orig.netAmount - reqs[s].orig.refundAmount
     /\ "donation" \in reqs[s].wrote)
    => reqs[s].doc.status = "completed"

\* the request in slot s refunds the whole donation
FullRefund(s) ==
  \/ reqs[s].op = "refundDonation"
  \/ reqs[s].op = "processRefund" /\ reqs[s].amount = reqs[s].orig.netAmount

\* C12: completing a donation and then refunding it in full returns the
\* campaign's currentAmount to its value before the completion, whichever entry
\* points do it: when the only two requests ever started are the completion of a
\* donation and its full refund, and the refund has been answered, the campaign
\* is back at its initial amount 0 and the donation is refunded.
C12_RoundTrip ==
  \A s \in BusySlots :
    (/\ started = 2
     /\ Refunds(s) /\ FullRefund(s) /\ reqs[s].orig.status = "completed"
     /\ Answered(s) /\ reqs[s].wrote = AllWrites)
    => /\ campaigns[reqs[s].doc.campaign].currentAmount = 0
       /\ donations[reqs[s].don].status = "refunded"

\* C13: a completion raises the campaign's currentAmount by the donation's
\* netAmount, whichever entry point performs it: when the only request ever
\* started is a completion that has made its campaign write, the campaign has
\* gone from 0 to the net amount of the donation.
C13_CreditIsNet ==
  \A s \in BusySlots :
    (started = 1 /\ Completes(s) /\ "campaign" \in reqs[s].wrote)
    => campaigns[reqs[s].doc.campaign].currentAmount = reqs[s].doc.netAmount

\* C14: once a completion has returned and the campaign's currentAmount is at or
\* above its goalAmount, the campaign's status is completed.
C14_GoalCrossing ==
  \A s \in BusySlots :
    (/\ Completes(s) /\ Answered(s) /\ reqs[s].wrote = AllWrites
     /\ campaigns[reqs[s].doc.campaign].currentAmount
          >= campaigns[reqs[s].doc.campaign].goalAmount)
    => campaigns[reqs[s].doc.campaign].status = "completed"

\* C15: for every stored donation whose gross amount the creation route accepts,
\* netAmount + platformFee + processingFee equals the gross amount.
C15_FeeConservation ==
  \A d \in DonationIds :
    (donations[d].exists /\ amountAccepted(donations[d].amount))
    => donations[d].netAmount + donations[d].platformFee
         + donations[d].paymentProcessingFee = donations[d].amount

C17_UnchangedOnError ==
  \A s \in BusySlots :
    (/\ reqs[s].op \in {"updateDonationStatus", "refundDonation"}
     /\ reqs[s].pc = "respond" /\ reqs[s].result # "200")
    => reqs[s].wrote = {}

\* what one uninterrupted run of the call in slot s adds to the campaign
CreditOf(s) ==
  CASE reqs[s].op = "updateDonationStatus" -> reqs[s].doc.amount
    [] reqs[s].op = "markAsCompleted" -> reqs[s].doc.netAmount
    [] OTHER -> -reqs[s].amount

\* C18: a completion or refund call that was aborted after some of its store
\* writes and made again until it succeeded leaves what a single uninterrupted
\* call leaves.  With one caller making one call on the initial aggregates: once
\* the call has succeeded the campaign holds its credit once, the donor holds one
\* count, and the donation has the call's status.
C18_RetryAppliesOnce ==
  \A s \in BusySlots :
    ((Completes(s) \/ Refunds(s)) /\ reqs[s].pc = "respond" /\ reqs[s].result = "200")
    => /\ campaigns[reqs[s].doc.campaign].currentAmount = CreditOf(s)
       /\ users[reqs[s].doc.donor].donationCount
            + users[reqs[s].doc.donor].statsDonationCount
            = (IF Completes(s) THEN 1 ELSE -1)
       /\ donations[reqs[s].don].status = reqs[s].doc.status

\* the donors with a completed donation to campaign c
DonorsOf(c) == {donations[d].donor : d \in CompletedOf(c)}

\* C19: a campaign's donorCount is the number of distinct donors with a
\* completed (and not refunded) donation to it.
C19_DistinctDonorCount ==
  Quiescent => \A c \in Campaigns : campaigns[c].donorCount = Cardinality(DonorsOf(c))

CountOfDonor(s) ==
  users[reqs[s].doc.donor].donationCount + users[reqs[s].doc.donor].statsDonationCount

\* C23: a refund takes one off the donor's donation count only when it refunds
\* the donation in full; a partial refund leaves the count as it is.  When the
\* only two requests ever started are the completion of a donation and a refund
\* of it, the donor's count after the refund is 0 for a full refund and 1 for a
\* partial one.
C23_CountOnlyOnFullRefund ==
  \A s \in BusySlots :
    (/\ started = 2
     /\ Refunds(s) /\ reqs[s].orig.status = "completed"
     /\ 0 < reqs[s].amount /\ reqs[s].amount <= reqs[s].orig.netAmount
     /\ Answered(s) /\ reqs[s].wrote = AllWrites)
    => CountOfDonor(s) = (IF FullRefund(s) THEN 0 ELSE 1)

\* C29: completing a donation and then refunding it in full returns the donor's
\* donationStats.totalDonated and donationStats.donationCount to their values
\* before the completion (0), whichever entry points do it.
C29_StatsRoundTrip ==
  \A s \in BusySlots :
    (/\ started = 2
     /\ Refunds(s) /\ FullRefund(s) /\ reqs[s].orig.status = "completed"
     /\ Answered(s) /\ reqs[s].wrote = AllWrites)
    => /\ users[reqs[s].doc.donor].statsTotalDonated = 0
       /\ users[reqs[s].doc.donor].statsDonationCount = 0

\* C21: no two stored donations hold the same receipt number, and a creation is
\* answered with an error for a receipt number that was taken only after it has
\* drawn again: one colliding draw does not fail the creation.
C21_UniqueWithRetry ==
  /\ \A d, e \in DonationIds :
       (d # e /\ donations[d].exists /\ donations[e].exists)
       => donations[d].receiptNumber # donations[e].receiptNumber
  /\ \A s \in BusySlots :
       (/\ reqs[s].op = "createDonation" /\ reqs[s].result = "error"
        /\ validDoc(reqs[s].doc)
        /\ reqs[s].doc.receiptNumber \in usedReceipts)
       => reqs[s].draws > 1

\* C22: only a completion or a refund changes a campaign's currentAmount or
\* donorCount: every step that changes one of them is the campaign write of a
\* completing or refunding request.
C22_ExclusiveOwnership ==
  [][\A c \in Campaigns :
       (\/ campaigns'[c].currentAmount # campaigns[c].currentAmount
        \/ campaigns'[c].donorCount # campaigns[c].donorCount)
       => \E s \in Slots :
            /\ Completes(s) \/ Refunds(s)
            /\ reqs[s].pc \in {"campaignInc", "campaignDec"}
            /\ reqs'[s].wrote = reqs[s].wrote \cup {"campaign"}]_vars

\* C25: once a completion has returned, every milestone whose amount the
\* campaign's currentAmount has reached is marked achieved; and the achievedAt
\* of an achieved milestone is never written again.
C25_MilestoneOnCompletion ==
  [][\A c \in Campaigns : \A i \in DOMAIN campaigns[c].milestones :
       /\ (/\ \E s \in Slots :
                /\ reqs'[s].op = "updateDonationStatus" /\ reqs'[s].status = "completed"
                /\ reqs'[s].doc.campaign = c
                /\ reqs'[s].pc = "respond" /\ reqs'[s].result = "200"
            /\ campaigns'[c].currentAmount >= campaigns'[c].milestones[i].amount)
           => campaigns'[c].milestones[i].achieved
       /\ campaigns[c].milestones[i].achieved
           => campaigns'[c].milestones[i] = campaigns[c].milestones[i]]_vars

\* the request in slot s makes one of its store calls in this step
StepOf(s) ==
  /\ reqs[s].pc \in {"save", "campaignDec", "userDec"}
  /\ reqs'[s] # reqs[s]

\* C26: no store call of a refund, through refundDonation or processRefund,
\* changes a campaign's status or any of its milestones.
C26_RefundFrame ==
  [][\A s \in Slots :
       (Refunds(s) /\ StepOf(s))
       => \A c \in Campaigns :
            /\ campaigns'[c].status = campaigns[c].status
            /\ campaigns'[c].milestones = campaigns[c].milestones]_vars

\* C26 witness: a refund has made its campaign write on a campaign that is
\* completed and whose milestone is achieved, and has left the campaign's
\* currentAmount below the goal and below the milestone's amount.
C26_Witness ==
  \E s \in BusySlots :
    LET c == campaigns[reqs[s].doc.campaign]
    IN /\ Refunds(s) /\ "campaign" \in reqs[s].wrote
       /\ c.status = "completed" /\ c.currentAmount < c.goalAmount
       /\ c.milestones[1].achieved /\ c.currentAmount < c.milestones[1].amount

\* C27: of the last campaign save: the document it wrote is not active with the
\* goal reached or the end date passed; a document that was active with the goal
\* reached and the end date passed was written as completed; a document that
\* was not active was written with the status it had.
C27_SaveInvariant ==
  LET b == hist.lastSave.before
      a == hist.lastSave.after
      t == hist.lastSave.at
  IN b.status # ""
     => /\ a.status = "active" => (a.currentAmount < a.goalAmount /\ ~(t > a.endDate))
        /\ (b.status = "active" /\ b.currentAmount >= b.goalAmount /\ t > b.endDate)
             => a.status = "completed"
        /\ b.status # "active" => a.status = b.status

\* C27 witness: the last campaign save was called on an active campaign with
\* the goal reached and the end date passed.
C27_Witness ==
  /\ hist.lastSave.before.status = "active"
  /\ hist.lastSave.before.currentAmount >= hist.lastSave.before.goalAmount
  /\ hist.lastSave.at > hist.lastSave.before.endDate
  /\ hist.lastSave.after.status = "completed"

\* C28: a donation is stored by createDonation only for a campaign for which
\* canReceiveDonations() holds.
C28_IntakeGuard ==
  [][\A d \in DonationIds :
       (~donations[d].exists /\ donations'[d].exists)
       => canReceiveDonations(campaigns[donations'[d].campaign])]_vars

\* C30: the fifth consecutive failed login locks the account for two hours; a
\* login on a locked account is refused even with the right password; a
\* successful login leaves the failed-attempt counter at zero.
C30_LoginLockout ==
  [][\A u \in Users :
       /\ (hist.failed[u] = LockAfter - 1 /\ hist'.failed[u] = LockAfter)
           => users'[u].lockUntil = hist'.now + LockTicks
       /\ (hist'.login # hist.login /\ hist'.login.user = u /\ lockedNow(users[u]))
           => hist'.login.result # "200"
       /\ (hist'.login # hist.login /\ hist'.login.user = u
            /\ hist'.login.result = "200")
           => users'[u].loginAttempts = 0]_vars

\* the donations that carry the reference of subscription i
DonationsOf(ds, i) == {d \in DonationIds : ds[d].exists /\ ds[d].subscriptionId = i}

\* a step that creates a donation for subscription i, or moves its nextDueDate
SweepStep(i) ==
  \/ DonationsOf(donations', i) # DonationsOf(donations, i)
  \/ /\ hist.subs[i].state # "none"
     /\ hist'.subs[i].nextDueDate # hist.subs[i].nextDueDate

\* every sweep step of subscription i is on an active subscription that is due,
\* creates exactly one donation, pending and with the subscription's reference,
\* campaign, amount and donor, and moves nextDueDate on by the interval
SweepCharges(i) ==
  SweepStep(i)
  => /\ hist.subs[i].state = "active" /\ hist.subs[i].nextDueDate <= hist.now
     /\ \E d \in DonationIds :
          /\ ~donations[d].exists
          /\ donations' = [donations EXCEPT ![d] = donations'[d]]
          /\ donations'[d].exists /\ donations'[d].status = "pending"
          /\ donations'[d].subscriptionId = i
          /\ donations'[d].campaign = hist.subs[i].campaign
          /\ donations'[d].amount = hist.subs[i].amount
          /\ donations'[d].donor = hist.subs[i].donor
     /\ hist'.subs[i].nextDueDate = hist.subs[i].nextDueDate + hist.subs[i].interval

\* C24 as stated: every sweep step charges an active, due subscription once and
\* moves nextDueDate on by the interval, and no second sweep step at the same
\* instant creates a further donation for the same subscription.
C24_OncePerInstant ==
  [][\A i \in SubIds :
       /\ SweepCharges(i)
       /\ SweepStep(i) => hist.swept[i] # hist.now]_vars

\* C24 amended: once per due date, not once per instant.  Every sweep step
\* charges an active, due subscription exactly once and moves nextDueDate on by
\* the interval; paused, cancelled and not yet due subscriptions are not
\* charged.  (A subscription that is still due after the advance is charged
\* again by the next sweep step.)
C24_OncePerDueDate == [][\A i \in SubIds : SweepCharges(i)]_vars

\* C24 witness: the sweep has created a donation for a subscription that is now
\* no longer due, and has created none for another that is overdue but paused
\* or cancelled.
C24_Witness ==
  \E i, j \in SubIds :
    /\ DonationsOf(donations, i) # {}
    /\ hist.subs[i].state = "active" /\ hist.subs[i].nextDueDate > hist.now
    /\ hist.subs[j].state \in {"paused", "cancelled"}
    /\ hist.subs[j].nextDueDate <= hist.now
    /\ DonationsOf(donations, j) = {}

====
